---- MODULE Spec2Model ----
(***************************************************************************)
(* Model of src/main.py (INTERLINK AI Matcher): the POST /match handler    *)
(* match_internships, which reads a student profile, gathers internships   *)
(* from the Supabase catalog, JSearch and Adzuna, drops duplicates, scores *)
(* every listing against the profile with TF-IDF / cosine similarity and   *)
(* returns the ten best.                                                   *)
(*                                                                         *)
(* Strings are modelled as sequences of words (the text between blanks),   *)
(* so that concatenation with " " is sequence concatenation and string     *)
(* equality is sequence equality.  JSON values carry their kind, because   *)
(* the code's behaviour differs for a string, null, a number and a missing *)
(* key.  Similarities are fixed-point numbers in hundredths.               *)
(***************************************************************************)
EXTENDS Integers, Sequences, FiniteSets, TLC

(***************************************************************************)
(* Bounds of the model.                                                    *)
(***************************************************************************)
MaxCatalog == 12
MaxCatalogStart == 2
MaxJobs == 2
MaxAdzuna == 2

(***************************************************************************)
(* JSON values.                                                            *)
(***************************************************************************)
Str(ws)  == [kind |-> "str",    words |-> ws]
List(ws) == [kind |-> "list",   words |-> ws]
Null     == [kind |-> "null",   words |-> <<>>]
Num      == [kind |-> "num",    words |-> <<>>]
Absent   == [kind |-> "absent", words |-> <<>>]

\* dict.get(key, default): the default only when the key is missing.
Get(v, default) == IF v.kind = "absent" THEN default ELSE v

\* dict.get(key): None when the key is missing.
GetOrNone(v) == Get(v, Null)

\* Python truthiness of a JSON value (the number of the model is non-zero).
Truthy(v) == CASE v.kind = "null"   -> FALSE
               [] v.kind = "absent" -> FALSE
               [] v.kind = "num"    -> TRUE
               [] OTHER             -> v.words # <<>>

\* Python's `v or ""`.
OrEmpty(v) == IF Truthy(v) THEN v ELSE Str(<<>>)

\* str.lower() of one word.
LowerWord(w) ==
    CASE w = "Python"   -> "python"
      [] w = "React"    -> "react"
      [] w = "Java"     -> "java"
      [] w = "SQL"      -> "sql"
      [] w = "Go"       -> "go"
      [] w = "Data"     -> "data"
      [] w = "Web"      -> "web"
      [] w = "Intern"   -> "intern"
      [] w = "Untitled" -> "untitled"
      [] w = "The"      -> "the"
      [] w = "Of"       -> "of"
      [] w = "C"        -> "c"
      [] OTHER          -> w

\* str.lower() of a string.
Lower(ws) == [i \in DOMAIN ws |-> LowerWord(ws[i])]

Range(s) == {s[i] : i \in DOMAIN s}

Min(a, b) == IF a <= b THEN a ELSE b


(***************************************************************************)
(* The collaborators: the datastore's tables and the providers' listings.  *)
(* A request reads a window of each; the windows are the inputs the model  *)
(* enumerates.                                                             *)
(***************************************************************************)
Student(id, skills, bio) == [id |-> id, skills |-> skills, bio |-> bio]

\* Rows of table "students".
StudentsTable ==
    << Student("s1", List(<<"Python", "React">>), Str(<<"Web", "Data">>)),
       Student("s2", List(<<>>),                  Null),
       Student("s3", List(<<"C">>),               Str(<<"The", "Of">>)),
       Student("s4", Null,                        Str(<<"Web">>)),
       Student("s5", List(<<"Java">>),            Str(<<"SQL", "Intern">>)) >>

\* The student_id query parameters tried: every stored id and one unknown id.
StudentIds == {StudentsTable[i].id : i \in DOMAIN StudentsTable} \cup {"unknown"}

Internship(id, title, description, skills) ==
    [id |-> Str(<<id>>), title |-> title, description |-> description,
     required_skills |-> skills]

\* Rows of table "internships" (columns id, title, description, required_skills).
InternshipsTable ==
    << Internship("c1",  Str(<<"Python", "Intern">>), Str(<<"Data">>),   List(<<"python">>)),
       Internship("c2",  Str(<<"React", "Intern">>),  Str(<<"Web">>),    List(<<"react">>)),
       Internship("c3",  Str(<<"python", "intern">>), Str(<<"Data">>),   List(<<"python">>)),
       Internship("c4",  Str(<<"Python", "Intern">>), Str(<<"Data">>),   List(<<"sql">>)),
       Internship("c5",  Str(<<"Java", "Intern">>),   Str(<<"Web">>),    List(<<"java">>)),
       Internship("c6",  Str(<<"The">>),              Str(<<"Of">>),     List(<<>>)),
       Internship("c7",  Str(<<"Data", "Intern">>),   Str(<<"Python">>), List(<<"sql">>)),
       Internship("c8",  Null,                        Str(<<"Intern", "React">>), List(<<>>)),
       Internship("c9",  Str(<<"SQL", "Intern">>),    Str(<<"Data">>),   List(<<"sql", "python">>)),
       Internship("c10", Str(<<>>),                   Str(<<"SQL">>),    List(<<>>)),
       Internship("c11", Str(<<"C">>),                Str(<<"The">>),    List(<<"C", "java">>)),
       Internship("c12", Str(<<"Java", "Intern">>),   Str(<<"Data">>),   List(<<"java", "python">>)),
       Internship("c13", Str(<<"Go", "Intern">>),     Str(<<"Web">>),    Null) >>

\* A JSON object of a provider's listing, or an element that is no object.
Job(id, title, description, link) ==
    [kind |-> "object", id |-> id, title |-> title, description |-> description,
     link |-> link]
NotAnObject ==
    [kind |-> "scalar", id |-> Absent, title |-> Absent, description |-> Absent,
     link |-> Absent]

\* Elements of "data" in JSearch's answer (job_id, job_title, job_description,
\* job_apply_link).
JSearchJobs ==
    << Job(Str(<<"j1">>), Str(<<"The">>),              Str(<<"Of">>),   Str(<<"u1">>)),
       Job(Str(<<"j2">>), Str(<<"Python", "Intern">>), Str(<<"Data">>), Str(<<"u2">>)),
       Job(Str(<<"j3">>), Str(<<"Go", "Intern">>),     Str(<<"Web">>),  Str(<<"u3">>)),
       Job(Absent,        Absent,                      Absent,          Absent),
       NotAnObject,
       Job(Str(<<"j6">>), Num,                         Str(<<"Web">>),  Null) >>

\* Elements of "results" in Adzuna's answer (id, title, description, redirect_url).
AdzunaJobs ==
    << Job(Str(<<"a1">>), Str(<<"Go", "Intern">>),     Str(<<"Web">>),  Str(<<"v1">>)),
       Job(Absent,        Str(<<"Python", "Intern">>), Str(<<"Data">>), Str(<<"v2">>)),
       NotAnObject >>

\* The n elements of `table` from position `start` on, wrapping around.
Window(table, start, n) ==
    [i \in 1..n |-> table[((start + i - 2) % Len(table)) + 1]]

Windows(table, maxStart, maxLen) ==
    {Window(table, s, n) : s \in 1..maxStart, n \in 0..maxLen}

\* What supabase.table(...).execute() can do: raise, or answer with .data.
Raised == [kind |-> "exception", status |-> 0, data |-> <<>>]
Answer(status, data) == [kind |-> "answer", status |-> status, data |-> data]

\* The rows of "students" whose id equals student_id.
SelectStudents(id) ==
    SelectSeq(StudentsTable, LAMBDA s : s.id = id)

InternshipsAnswers ==
    {Raised} \cup
    {Answer(200, w) : w \in Windows(InternshipsTable, MaxCatalogStart, MaxCatalog)}

\* What requests.get(...) can do: raise (timeout, network), or answer with a
\* status code and a JSON body.
JSearchAnswers ==
    {Raised, Answer(500, <<>>)} \cup
    {Answer(200, w) : w \in Windows(JSearchJobs, Len(JSearchJobs), MaxJobs)}

AdzunaAnswers ==
    {Raised, Answer(500, <<>>)} \cup
    {Answer(200, w) : w \in Windows(AdzunaJobs, Len(AdzunaJobs), MaxAdzuna)}


(***************************************************************************)
(* Section 3: the student's text.                                          *)
(***************************************************************************)
\* The result of an expression that may raise: its value, or `raised`.
Value(v) == [raised |-> FALSE, value |-> v]
Raise    == [raised |-> TRUE,  value |-> <<>>]

\* (" ".join(student.get("skills", [])) + " " + (student.get("bio") or "")).lower()
\* " ".join raises TypeError on None, and so does str + anything but a str.
StudentText(student) ==
    LET skills == Get(student.skills, List(<<>>))
        bio    == OrEmpty(GetOrNone(student.bio))
    IN  IF skills.kind = "list" /\ bio.kind = "str"
        THEN Value(Lower(skills.words \o bio.words))
        ELSE Raise

(***************************************************************************)
(* Sections 4 to 7: the three sources and the data frames.                 *)
(***************************************************************************)
SourceCatalog == "supabase"
SourceJSearch == "external_jsearch"
SourceAdzuna  == "external_adzuna"
Sources == {SourceCatalog, SourceJSearch, SourceAdzuna}

\* An "id" value: a prefix, the value read from the listing, or (with no value)
\* the count that the f-string formats.
Id(prefix, v, n) == [prefix |-> prefix, val |-> v, n |-> n]

\* The lambda of internal_df.apply: title + " " + description + " " + skills.
CatalogText(x) ==
    LET title  == OrEmpty(GetOrNone(x.title))
        descr  == OrEmpty(GetOrNone(x.description))
        skills == Get(x.required_skills, List(<<>>))
    IN  IF title.kind = "str" /\ descr.kind = "str" /\ skills.kind = "list"
        THEN Value(Lower(title.words \o descr.words \o skills.words))
        ELSE Raise

\* One row of internal_df, its index the row's position in internal_data.
CatalogRow(x, i) ==
    [idx |-> i - 1, id |-> Id("", x.id, 0), title |-> x.title,
     description |-> x.description, required_skills |-> x.required_skills,
     source |-> SourceCatalog, url |-> Str(<<>>),
     text |-> CatalogText(x).value]

\* pd.DataFrame(internal_data) with its source, url and text columns; the empty
\* frame when there are no rows.  apply raises when the lambda raises on a row.
InternalDf(internal_data) ==
    IF \E i \in DOMAIN internal_data : CatalogText(internal_data[i]).raised
    THEN Raise
    ELSE Value([i \in DOMAIN internal_data |-> CatalogRow(internal_data[i], i)])

\* "+".join(student.get("skills", [])) or "internship", then "+internship":
\* the words of the query between the "+" signs.
JSearchQuery(student) ==
    LET skills == Get(student.skills, List(<<>>)).words
    IN  (IF skills = <<>> THEN <<"internship">> ELSE skills) \o <<"internship">>

\* params["what"] of the Adzuna call.
AdzunaQuery(student) == <<"internship">>

PerProviderCap == 10

\* s[:n]
Take(s, n) == SubSeq(s, 1, Min(n, Len(s)))

\* The dict appended for the i-th element of JSearch's "data".
JSearchEntry(job, i) ==
    [id |-> IF job.id.kind = "absent" THEN Id("j_", Str(<<>>), i - 1)
                                      ELSE Id("", job.id, 0),
     title |-> Get(job.title, Str(<<"Untitled">>)),
     description |-> Get(job.description, Str(<<>>)),
     url |-> Get(job.link, Str(<<>>)),
     required_skills |-> List(<<>>),
     source |-> SourceJSearch]

\* The dict appended for the i-th element of Adzuna's "results".
AdzunaEntry(job, i) ==
    [id |-> IF job.id.kind = "absent" THEN Id("adz_", Str(<<>>), i - 1)
                                      ELSE Id("adz_", job.id, 0),
     title |-> Get(job.title, Str(<<"Untitled">>)),
     description |-> Get(job.description, Str(<<>>)),
     url |-> Get(job.link, Str(<<>>)),
     required_skills |-> List(<<>>),
     source |-> SourceAdzuna]

\* The number of leading elements of `jobs` that are JSON objects: job.get
\* raises AttributeError on the first that is not.
ObjectsBefore(jobs) ==
    IF \E i \in DOMAIN jobs : jobs[i].kind # "object"
    THEN (CHOOSE i \in DOMAIN jobs :
              /\ jobs[i].kind # "object"
              /\ \A j \in 1..(i - 1) : jobs[j].kind = "object") - 1
    ELSE Len(jobs)

\* The for loop over response.json().get("data", [])[:10]: what it has appended
\* when it ends or raises.
JSearchLoop(data) ==
    LET jobs == Take(data, PerProviderCap)
        n    == ObjectsBefore(jobs)
    IN  [raised |-> n < Len(jobs),
         value  |-> [i \in 1..n |-> JSearchEntry(jobs[i], i)]]

\* The for loop over resp.json().get("results", []).
AdzunaLoop(results) ==
    LET n == ObjectsBefore(results)
    IN  [raised |-> n < Len(results),
         value  |-> [i \in 1..n |-> AdzunaEntry(results[i], i)]]

\* The lambda of external_df.apply: title + " " + description.
ExternalText(x) ==
    LET title == OrEmpty(x.title)
        descr == OrEmpty(x.description)
    IN  IF title.kind = "str" /\ descr.kind = "str"
        THEN Value(Lower(title.words \o descr.words))
        ELSE Raise

\* pd.DataFrame(external_list) with its text column.
ExternalDf(external_list) ==
    IF \E i \in DOMAIN external_list : ExternalText(external_list[i]).raised
    THEN Raise
    ELSE Value([i \in DOMAIN external_list |->
                  [idx |-> i - 1, id |-> external_list[i].id,
                   title |-> external_list[i].title,
                   description |-> external_list[i].description,
                   required_skills |-> external_list[i].required_skills,
                   source |-> external_list[i].source,
                   url |-> external_list[i].url,
                   text |-> ExternalText(external_list[i]).value]])

\* pd.concat([a, b], ignore_index=True): the rows of a, then of b, renumbered.
Concat(a, b) ==
    LET rows == a \o b
    IN  [i \in DOMAIN rows |-> [rows[i] EXCEPT !.idx = i - 1]]

\* The key of drop_duplicates(subset=["title", "description"]).
DedupKey(row) == <<row.title, row.description>>

\* drop_duplicates mutants: keep="last", and a key compared without case.
DropDuplicatesKeepLast(df) ==
    SelectSeq(df, LAMBDA r :
        ~ \E j \in DOMAIN df : df[j].idx > r.idx /\ DedupKey(df[j]) = DedupKey(r))

LowerKey(row) ==
    <<[row.title EXCEPT !.words = Lower(@)], [row.description EXCEPT !.words = Lower(@)]>>

DropDuplicatesNoCase(df) ==
    SelectSeq(df, LAMBDA r :
        ~ \E j \in DOMAIN df : df[j].idx < r.idx /\ LowerKey(df[j]) = LowerKey(r))

\* drop_duplicates(subset=["title", "description"], inplace=True): keep="first",
\* the index labels of the kept rows unchanged.
DropDuplicates(df) ==
    SelectSeq(df, LAMBDA r :
        ~ \E j \in DOMAIN df : df[j].idx < r.idx /\ DedupKey(df[j]) = DedupKey(r))

(***************************************************************************)
(* Section 8: TfidfVectorizer(stop_words="english") and cosine_similarity. *)
(***************************************************************************)
\* The words of the model that are in scikit-learn's English stop word list.
StopWords == {"the", "of"}

\* The words of the model that token_pattern (two or more word characters)
\* does not match.
ShortWords == {"c"}

\* The analyzer: the tokens of a document, stop words removed.
Tokens(doc) == SelectSeq(doc, LAMBDA w : w \notin StopWords /\ w \notin ShortWords)

\* vectorizer.vocabulary_
Vocabulary(corpus) == UNION {Range(Tokens(corpus[i])) : i \in DOMAIN corpus}

\* The term's count in the document.
Tf(doc, t) ==
    LET toks == Tokens(doc)
    IN  Cardinality({k \in DOMAIN toks : toks[k] = t})

\* The number of documents holding the term.
Df(corpus, t) == Cardinality({i \in DOMAIN corpus : t \in Range(Tokens(corpus[i]))})

\* 100 * ln(k), rounded, for k = 1..64.
Ln100 ==
    << 0, 69, 110, 139, 161, 179, 195, 208,
       220, 230, 240, 248, 256, 264, 271, 277,
       283, 289, 294, 300, 304, 309, 314, 318,
       322, 326, 330, 333, 337, 340, 343, 347,
       350, 353, 356, 358, 361, 364, 366, 369,
       371, 374, 376, 378, 381, 383, 385, 387,
       389, 391, 393, 395, 397, 399, 401, 403,
       404, 406, 408, 409, 411, 413, 414, 416 >>

\* smooth_idf: ln((1 + n) / (1 + df)) + 1, in hundredths.
Idf(corpus, t) == Ln100[1 + Len(corpus)] - Ln100[1 + Df(corpus, t)] + 100

\* vectorizer.idf_, over the vocabulary.
IdfVector(corpus) == [t \in Vocabulary(corpus) |-> Idf(corpus, t)]

\* The document's row of the tf-idf matrix, before its l2 normalisation (which
\* the cosine undoes).
TfidfRow(idf, doc) == [t \in DOMAIN idf |-> Tf(doc, t) * idf[t]]

\* The sum of f[x] for x in S.
RECURSIVE SetSum(_, _)
SetSum(f, S) ==
    IF S = {} THEN 0
    ELSE LET x == CHOOSE y \in S : TRUE IN f[x] + SetSum(f, S \ {x})

Dot(a, b) == SetSum([t \in DOMAIN a |-> a[t] * b[t]], DOMAIN a)

\* The integer square root.
RECURSIVE ISqrt(_)
ISqrt(x) == IF x < 2 THEN x
            ELSE LET r == 2 * ISqrt(x \div 4)
                 IN  IF (r + 1) * (r + 1) > x THEN r ELSE r + 1

\* cosine_similarity of two rows, in hundredths: their dot product over the
\* product of their norms, 0 for a row of zeros.
Cosine(a, b) ==
    LET na == ISqrt(Dot(a, a))
        nb == ISqrt(Dot(b, b))
    IN  IF na = 0 \/ nb = 0 THEN 0
        ELSE Min(100, (Dot(a, b) * 100) \div (na * nb))

\* [student_text] + all_internships["text"].tolist()
Corpus(text, df) == <<text>> \o [i \in DOMAIN df |-> df[i].text]

\* fit_transform raises ValueError("empty vocabulary; ...") when no document
\* has a token left; else cosine_similarity(tfidf_matrix[0:1], tfidf_matrix[1:])
\* is one score per document after the first.
Similarities(corpus) ==
    IF Vocabulary(corpus) = {} THEN Raise
    ELSE LET idf     == IdfVector(corpus)
             profile == TfidfRow(idf, corpus[1])
         IN  Value([i \in 1..(Len(corpus) - 1) |->
                       Cosine(profile, TfidfRow(idf, corpus[i + 1]))])


\* all_internships["similarity"] = similarities, with the scores taken by index
\* label instead of by position (a label past the end reads no score: -1).
AssignSimilarityByLabel(df, sims) ==
    [i \in DOMAIN df |->
        df[i] @@ [similarity |-> IF df[i].idx + 1 \in DOMAIN sims
                                 THEN sims[df[i].idx + 1] ELSE -1]]

\* all_internships["similarity"] = similarities: an array is assigned by
\* position, the i-th score to the i-th row whatever its index label.
AssignSimilarity(df, sims) ==
    [i \in DOMAIN df |-> df[i] @@ [similarity |-> sims[i]]]

(***************************************************************************)
(* Section 9: sort, head(10), to_dict.                                     *)
(***************************************************************************)
TopK == 10

\* `row` put into `sorted` (descending) behind the rows that score the same.
InsertBehindTies(sorted, row) ==
    LET n == Cardinality({i \in DOMAIN sorted : sorted[i].similarity >= row.similarity})
    IN  SubSeq(sorted, 1, n) \o <<row>> \o SubSeq(sorted, n + 1, Len(sorted))

\* `row` put into `sorted` (descending) before the rows that score the same.
InsertBeforeTies(sorted, row) ==
    LET n == Cardinality({i \in DOMAIN sorted : sorted[i].similarity > row.similarity})
    IN  SubSeq(sorted, 1, n) \o <<row>> \o SubSeq(sorted, n + 1, Len(sorted))

\* Descending by similarity, rows that score the same in the frame's order.
RECURSIVE TiesInOrder(_)
TiesInOrder(df) ==
    IF df = <<>> THEN <<>>
    ELSE InsertBehindTies(TiesInOrder(SubSeq(df, 1, Len(df) - 1)), df[Len(df)])

\* Descending by similarity, rows that score the same in the reverse order.
RECURSIVE TiesReversed(_)
TiesReversed(df) ==
    IF df = <<>> THEN <<>>
    ELSE InsertBeforeTies(TiesReversed(SubSeq(df, 1, Len(df) - 1)), df[Len(df)])

\* sort_values("similarity", ascending=False).  No `kind` is given, so the sort
\* is pandas' default quicksort, which is not stable: the result is descending
\* by similarity and the order of rows that score the same is not determined.
\* The model takes two of the possible orders.
SortValues(df) == {TiesInOrder(df), TiesReversed(df)}

\* .head(n) mutant: the last n rows.
DfTail(df, n) == SubSeq(df, Len(df) + 1 - Min(n, Len(df)), Len(df))

\* .head(n)
DfHead(df, n) == SubSeq(df, 1, Min(n, Len(df)))

\* top_matches[["id", "title", "description", "similarity", "source", "url"]]
\*     .to_dict(orient="records")
ToRecords(df) ==
    [i \in DOMAIN df |->
        [id |-> df[i].id, title |-> df[i].title, description |-> df[i].description,
         similarity |-> df[i].similarity, source |-> df[i].source, url |-> df[i].url]]

(***************************************************************************)
(* The handler's answers.                                                  *)
(***************************************************************************)
NoResponse == [kind |-> "none", error |-> "", student_id |-> "",
               matches_found |-> 0, matches |-> <<>>]

\* return {"error": ...}
ErrorPayload(msg) == [NoResponse EXCEPT !.kind = "error", !.error = msg]
ProfileNotFound == ErrorPayload("No student found with id")
DatabaseError   == ErrorPayload("Database error fetching student")
NoCandidates    == ErrorPayload("No internships found (Supabase + APIs)")

\* An exception that leaves match_internships.
Unhandled(exc) == [NoResponse EXCEPT !.kind = "exception", !.error = exc]

\* return {"student_id": ..., "matches_found": len(results), "matches": results}
Matches(id, results) ==
    [kind |-> "ok", error |-> "", student_id |-> id,
     matches_found |-> Len(results), matches |-> results]

\* DataFrame.empty mutant: never empty.
NeverEmpty(df) == FALSE

\* DataFrame.empty
Empty(df) == df = <<>>


(***************************************************************************)
(* The state: the credentials read from the environment when the module    *)
(* loads, the request's parameter, the handler's local variables and its   *)
(* position, the answer, and a record of the calls made and of how each    *)
(* source ended.                                                           *)
(***************************************************************************)
VARIABLES
    RAPIDAPI_KEY,     \* whether the variable is set
    ADZUNA_APP_ID,
    ADZUNA_APP_KEY,
    student_id,
    pc,
    student_res,
    student,
    student_text,
    internal_df,
    jsearch_list,
    adzuna_list,
    external_df,
    all_internships,
    top_matches,
    response,
    calls,            \* the outbound calls made, in order
    outcome           \* how each source ended

vars == <<RAPIDAPI_KEY, ADZUNA_APP_ID, ADZUNA_APP_KEY, student_id, pc, student_res,
          student, student_text, internal_df, jsearch_list, adzuna_list,
          external_df, all_internships, top_matches, response, calls, outcome>>

env == <<RAPIDAPI_KEY, ADZUNA_APP_ID, ADZUNA_APP_KEY, student_id>>

\* An outbound call: the table or provider, and the query sent.
Call(to, query) == [to |-> to, query |-> query]

\* How a source can fail.
Failures == {"missing_credentials", "non_2xx", "exception", "mapping_error"}

Unset == [kind |-> "unset", status |-> 0, data |-> <<>>]
NoStudent == Student("", Absent, Absent)

Init ==
    /\ RAPIDAPI_KEY \in BOOLEAN
    /\ ADZUNA_APP_ID \in BOOLEAN
    /\ ADZUNA_APP_KEY \in BOOLEAN
    /\ student_id \in StudentIds
    /\ pc = "student"
    /\ student_res = Unset
    /\ student = NoStudent
    /\ student_text = <<>>
    /\ internal_df = <<>>
    /\ jsearch_list = <<>>
    /\ adzuna_list = <<>>
    /\ external_df = <<>>
    /\ all_internships = <<>>
    /\ top_matches = <<>>
    /\ response = NoResponse
    /\ calls = <<>>
    /\ outcome = [s \in Sources |-> "pending"]

\* The handler ends with `answer`.
Return(answer) ==
    /\ response' = answer
    /\ pc' = "done"

\* FetchStudent without the `if not student_res.data` return: an empty dict
\* stands for the student and the handler goes on.
FetchStudentNoCheck ==
    /\ pc = "student"
    /\ \E res \in {Raised, Answer(200, SelectStudents(student_id))} :
        /\ student_res' = res
        /\ calls' = Append(calls, Call("students", <<student_id>>))
        /\ IF res.kind = "exception"
           THEN /\ Return(DatabaseError)
                /\ UNCHANGED <<student, student_text>>
           ELSE LET row == IF res.data = <<>> THEN NoStudent ELSE res.data[1]
                IN  /\ student' = row
                    /\ IF StudentText(row).raised
                       THEN /\ Return(Unhandled("TypeError"))
                            /\ UNCHANGED student_text
                       ELSE /\ student_text' = StudentText(row).value
                            /\ pc' = "internal"
                            /\ UNCHANGED response
    /\ UNCHANGED <<env, internal_df, jsearch_list, adzuna_list, external_df,
                   all_internships, top_matches, outcome>>

\* Section 3: read the student, return an error payload when the read raises
\* or finds no row, and build student_text.
FetchStudent ==
    /\ pc = "student"
    /\ \E res \in {Raised, Answer(200, SelectStudents(student_id))} :
        /\ student_res' = res
        /\ calls' = Append(calls, Call("students", <<student_id>>))
        /\ IF res.kind = "exception"
           THEN /\ Return(DatabaseError)
                /\ UNCHANGED <<student, student_text>>
           ELSE IF res.data = <<>>
           THEN /\ Return(ProfileNotFound)
                /\ UNCHANGED <<student, student_text>>
           ELSE /\ student' = res.data[1]
                /\ IF StudentText(res.data[1]).raised
                   THEN /\ Return(Unhandled("TypeError"))
                        /\ UNCHANGED student_text
                   ELSE /\ student_text' = StudentText(res.data[1]).value
                        /\ pc' = "internal"
                        /\ UNCHANGED response
    /\ UNCHANGED <<env, internal_df, jsearch_list, adzuna_list, external_df,
                   all_internships, top_matches, outcome>>

\* Section 4: read the catalog (a read that raises counts as no rows) and build
\* internal_df; the apply that builds the text column is outside the try.
FetchInternal ==
    /\ pc = "internal"
    /\ \E res \in InternshipsAnswers :
        LET internal_data == IF res.kind = "exception" THEN <<>> ELSE res.data
            df == InternalDf(internal_data)
        IN  /\ calls' = Append(calls, Call("internships", <<>>))
            /\ IF df.raised
               THEN /\ Return(Unhandled("TypeError"))
                    /\ outcome' = [outcome EXCEPT ![SourceCatalog] = "mapping_error"]
                    /\ UNCHANGED internal_df
               ELSE /\ internal_df' = df.value
                    /\ outcome' = [outcome EXCEPT ![SourceCatalog] =
                                     IF res.kind = "exception" THEN "exception" ELSE "ok"]
                    /\ pc' = "jsearch"
                    /\ UNCHANGED response
    /\ UNCHANGED <<env, student_res, student, student_text, jsearch_list, adzuna_list,
                   external_df, all_internships, top_matches>>

\* Section 5: JSearch.  Without the key no call is made; the call, the status
\* check and the loop over the listings are inside one try.
FetchJSearch ==
    /\ pc = "jsearch"
    /\ IF ~ RAPIDAPI_KEY
       THEN /\ jsearch_list' = <<>>
            /\ outcome' = [outcome EXCEPT ![SourceJSearch] = "missing_credentials"]
            /\ UNCHANGED calls
       ELSE \E res \in JSearchAnswers :
            /\ calls' = Append(calls, Call("jsearch", JSearchQuery(student)))
            /\ IF res.kind = "exception"
               THEN /\ jsearch_list' = <<>>
                    /\ outcome' = [outcome EXCEPT ![SourceJSearch] = "exception"]
               ELSE IF res.status # 200
               THEN /\ jsearch_list' = <<>>
                    /\ outcome' = [outcome EXCEPT ![SourceJSearch] = "non_2xx"]
               ELSE /\ jsearch_list' = JSearchLoop(res.data).value
                    /\ outcome' = [outcome EXCEPT ![SourceJSearch] =
                                     IF JSearchLoop(res.data).raised
                                     THEN "mapping_error" ELSE "ok"]
    /\ pc' = "adzuna"
    /\ UNCHANGED <<env, student_res, student, student_text, internal_df, adzuna_list,
                   external_df, all_internships, top_matches, response>>

\* Section 6: Adzuna, the same with both of its credentials.
FetchAdzuna ==
    /\ pc = "adzuna"
    /\ IF ~ (ADZUNA_APP_ID /\ ADZUNA_APP_KEY)
       THEN /\ adzuna_list' = <<>>
            /\ outcome' = [outcome EXCEPT ![SourceAdzuna] = "missing_credentials"]
            /\ UNCHANGED calls
       ELSE \E res \in AdzunaAnswers :
            /\ calls' = Append(calls, Call("adzuna", AdzunaQuery(student)))
            /\ IF res.kind = "exception"
               THEN /\ adzuna_list' = <<>>
                    /\ outcome' = [outcome EXCEPT ![SourceAdzuna] = "exception"]
               ELSE IF res.status # 200
               THEN /\ adzuna_list' = <<>>
                    /\ outcome' = [outcome EXCEPT ![SourceAdzuna] = "non_2xx"]
               ELSE /\ adzuna_list' = AdzunaLoop(res.data).value
                    /\ outcome' = [outcome EXCEPT ![SourceAdzuna] =
                                     IF AdzunaLoop(res.data).raised
                                     THEN "mapping_error" ELSE "ok"]
    /\ pc' = "combine"
    /\ UNCHANGED <<env, student_res, student, student_text, internal_df, jsearch_list,
                   external_df, all_internships, top_matches, response>>

\* The sources one of whose listings the apply of section 7 raises on.
TextFailures(external_list) ==
    {external_list[i].source : i \in {j \in DOMAIN external_list :
                                        ExternalText(external_list[j]).raised}}

\* Section 7: build external_df (its apply is in no try), concatenate, drop the
\* duplicates and return the error payload when nothing is left.
Combine ==
    /\ pc = "combine"
    /\ LET external_list == jsearch_list \o adzuna_list
           df == ExternalDf(external_list)
       IN  IF df.raised
           THEN /\ Return(Unhandled("TypeError"))
                /\ outcome' = [s \in Sources |->
                                 IF s \in TextFailures(external_list)
                                 THEN "mapping_error" ELSE outcome[s]]
                /\ UNCHANGED <<external_df, all_internships>>
           ELSE /\ external_df' = df.value
                /\ all_internships' = DropDuplicates(Concat(internal_df, df.value))
                /\ IF Empty(DropDuplicates(Concat(internal_df, df.value)))
                   THEN Return(NoCandidates)
                   ELSE pc' = "score" /\ UNCHANGED response
                /\ UNCHANGED outcome
    /\ UNCHANGED <<env, student_res, student, student_text, internal_df, jsearch_list,
                   adzuna_list, top_matches, calls>>

\* Section 8: vectorize the corpus and attach the scores (in no try).
ComputeSimilarity ==
    /\ pc = "score"
    /\ LET similarities == Similarities(Corpus(student_text, all_internships))
       IN  IF similarities.raised
           THEN /\ Return(Unhandled("ValueError"))
                /\ UNCHANGED all_internships
           ELSE /\ all_internships' = AssignSimilarity(all_internships, similarities.value)
                /\ pc' = "sort"
                /\ UNCHANGED response
    /\ UNCHANGED <<env, student_res, student, student_text, internal_df, jsearch_list,
                   adzuna_list, external_df, top_matches, calls, outcome>>

\* Section 9: sort, keep the first ten and return them.
SortAndReturn ==
    /\ pc = "sort"
    /\ \E sorted \in SortValues(all_internships) :
        /\ top_matches' = DfHead(sorted, TopK)
        /\ Return(Matches(student_id, ToRecords(DfHead(sorted, TopK))))
    /\ UNCHANGED <<env, student_res, student, student_text, internal_df, jsearch_list,
                   adzuna_list, external_df, all_internships, calls, outcome>>

Next ==
    \/ FetchStudent
    \/ FetchInternal
    \/ FetchJSearch
    \/ FetchAdzuna
    \/ Combine
    \/ ComputeSimilarity
    \/ SortAndReturn

Spec == Init /\ [][Next]_vars


(***************************************************************************)
(* Properties.                                                             *)
(***************************************************************************)
\* The number of candidates the source has handed to the pool.
Contribution(s) ==
    Cardinality({i \in DOMAIN internal_df : internal_df[i].source = s})
    + Cardinality({i \in DOMAIN jsearch_list : jsearch_list[i].source = s})
    + Cardinality({i \in DOMAIN adzuna_list : adzuna_list[i].source = s})

\* Section 7 has built the deduplicated pool.
PoolBuilt ==
    \/ pc \in {"score", "sort"}
    \/ /\ pc = "done"
       /\ \/ response.kind = "ok"
          \/ response = NoCandidates
          \/ response = Unhandled("ValueError")

\* The pool before drop_duplicates.
Aggregated == Concat(internal_df, external_df)

\* C1: a source that fails in any way (missing credentials, non-2xx answer,
\* exception of the call, failure while mapping a listing) hands zero candidates
\* to the pool, and its failure does not leave match_internships as an exception.
C1_FailuresAbsorbed ==
    \A s \in Sources :
        outcome[s] \in Failures =>
            /\ Contribution(s) = 0
            /\ response # Unhandled("TypeError")

\* C2: when the profile resolved and the three sources handed over nothing, the
\* handler ends with the NoCandidates payload; an "ok" answer has a match.
C2_NoCandidates ==
    /\ ( /\ pc \notin {"student", "internal", "jsearch", "adzuna", "combine"}
         /\ outcome[SourceAdzuna] # "pending"
         /\ internal_df = <<>> /\ jsearch_list = <<>> /\ adzuna_list = <<>> )
       => (pc = "done" /\ response = NoCandidates)
    /\ response.kind = "ok" =>
           (Len(response.matches) >= 1 /\ response.matches_found >= 1)

\* C2's case: nothing to rank, from an empty answer of one source and an
\* absorbed failure of another.
C2_Witness ==
    /\ pc = "done" /\ response = NoCandidates
    /\ \E s \in Sources : outcome[s] = "ok"
    /\ \E s \in Sources : outcome[s] \in {"exception", "non_2xx"}

\* C3: when no student row has the id, the handler ends with ProfileNotFound
\* and the only call ever made is the read of "students": no source is invoked.
C3_ProfileNotFound ==
    (student_res.kind = "answer" /\ student_res.data = <<>>) =>
        /\ pc = "done"
        /\ response = ProfileNotFound
        /\ \A i \in DOMAIN calls : calls[i].to = "students"
        /\ \A s \in Sources : outcome[s] = "pending"

\* C3's case: an unknown id, with the providers' credentials all set.
C3_Witness ==
    /\ student_res.kind = "answer" /\ student_res.data = <<>>
    /\ response = ProfileNotFound
    /\ RAPIDAPI_KEY /\ ADZUNA_APP_ID /\ ADZUNA_APP_KEY

\* C4: of the listings with one (title, description) the pool keeps the first
\* in the order catalog, JSearch, Adzuna: the catalog's when the catalog has
\* one, else JSearch's when JSearch has one.
C4_FirstSeenWins ==
    PoolBuilt =>
        \A i \in DOMAIN all_internships :
            LET p == all_internships[i]
                inCatalog == \E k \in DOMAIN internal_df :
                                 DedupKey(internal_df[k]) = DedupKey(p)
                inJSearch == \E k \in DOMAIN jsearch_list :
                                 DedupKey(jsearch_list[k]) = DedupKey(p)
            IN  /\ inCatalog => p.source = SourceCatalog
                /\ (~ inCatalog /\ inJSearch) => p.source = SourceJSearch
                /\ \A k \in DOMAIN Aggregated :
                       DedupKey(Aggregated[k]) = DedupKey(p) => p.idx <= Aggregated[k].idx

\* C4's case: one listing in the catalog and at a provider, another at both
\* providers and not in the catalog.
C4_Witness ==
    /\ response.kind = "ok"
    /\ \E c \in DOMAIN internal_df, j \in DOMAIN jsearch_list :
           DedupKey(internal_df[c]) = DedupKey(jsearch_list[j])
    /\ \E j \in DOMAIN jsearch_list, a \in DOMAIN adzuna_list :
           /\ DedupKey(jsearch_list[j]) = DedupKey(adzuna_list[a])
           /\ \A c \in DOMAIN internal_df :
                  DedupKey(internal_df[c]) # DedupKey(jsearch_list[j])

\* C5: the deduplicated pool is no larger than what the sources handed over,
\* no two of its entries have the same (title, description), and every
\* (title, description) handed over is still there exactly as written, so
\* entries that differ only in case are both kept.
C5_Dedup ==
    PoolBuilt =>
        /\ Len(all_internships) <= Len(internal_df) + Len(jsearch_list) + Len(adzuna_list)
        /\ \A i, j \in DOMAIN all_internships :
               i # j => DedupKey(all_internships[i]) # DedupKey(all_internships[j])
        /\ \A k \in DOMAIN Aggregated : \E i \in DOMAIN all_internships :
               DedupKey(all_internships[i]) = DedupKey(Aggregated[k])

\* C5's case: a duplicate was dropped, and two entries that differ only in
\* case were kept.
C5_Witness ==
    /\ PoolBuilt
    /\ Len(all_internships) < Len(Aggregated)
    /\ \E i, j \in DOMAIN all_internships :
           /\ DedupKey(all_internships[i]) # DedupKey(all_internships[j])
           /\ LowerKey(all_internships[i]) = LowerKey(all_internships[j])

\* C6: an "ok" answer lists at most ten matches, in non-increasing order of
\* similarity, and no candidate left out scores higher than one listed.
C6_TopTen ==
    response.kind = "ok" =>
        /\ Len(response.matches) <= TopK
        /\ response.matches_found = Len(response.matches)
        /\ \A i, j \in DOMAIN response.matches :
               i < j => response.matches[i].similarity >= response.matches[j].similarity
        /\ \A r \in DOMAIN all_internships :
               (\A k \in DOMAIN top_matches :
                    top_matches[k].idx # all_internships[r].idx)
               => \A k \in DOMAIN response.matches :
                      all_internships[r].similarity <= response.matches[k].similarity

\* C6's case: more than ten candidates with different scores, ten returned.
C6_Witness ==
    /\ response.kind = "ok"
    /\ Len(all_internships) > TopK
    /\ Len(response.matches) = TopK
    /\ response.matches[1].similarity > response.matches[TopK].similarity
    /\ \E r \in DOMAIN all_internships :
           all_internships[r].similarity < response.matches[TopK].similarity

\* C7: the sort is stable: the matches are the first ten of the pool ordered
\* by similarity, candidates that score the same staying in the pool's order.
C7_StableSort ==
    response.kind = "ok" =>
        top_matches = DfHead(TiesInOrder(all_internships), TopK)

\* C8: with a pool that is not empty and a corpus without any token, the
\* handler raises nothing and answers "ok" with every similarity 0.
C8_EmptyVocabulary ==
    ( /\ pc = "done" /\ PoolBuilt
      /\ all_internships # <<>>
      /\ Vocabulary(Corpus(student_text, all_internships)) = {} )
    => /\ response.kind = "ok"
       /\ \A k \in DOMAIN response.matches : response.matches[k].similarity = 0

\* The query a provider is sent for a student.
QueryFor(to, s) == IF to = "jsearch" THEN JSearchQuery(s) ELSE AdzunaQuery(s)

\* The term of the query that stands for the skills: JSearch's query without
\* the "+internship" that ends every one of them, Adzuna's "what".
SkillsTerm(call) ==
    IF call.to = "jsearch" THEN SubSeq(call.query, 1, Len(call.query) - 1)
    ELSE call.query

\* C9: the query sent to JSearch and to Adzuna is built from the skills: it is
\* "internship" exactly when there are none, and a student with other skills
\* would have been sent another query.
C9_QueryFromSkills ==
    \A i \in DOMAIN calls :
        calls[i].to \in {"jsearch", "adzuna"} =>
            /\ SkillsTerm(calls[i]) = <<"internship">> <=> student.skills.words = <<>>
            /\ \A k \in DOMAIN StudentsTable :
                   ( /\ student.skills.words # <<>>
                     /\ StudentsTable[k].skills.words # <<>>
                     /\ StudentsTable[k].skills.words # student.skills.words )
                   => QueryFor(calls[i].to, StudentsTable[k]) # calls[i].query

\* C10: every candidate, and so every match, carries the similarity of its own
\* text to the profile text, the corpus being the profile text followed by the
\* texts of the deduplicated pool.
C10_OwnScore ==
    (pc = "sort" \/ response.kind = "ok") =>
        LET corpus  == Corpus(student_text, all_internships)
            idf     == IdfVector(corpus)
            profile == TfidfRow(idf, student_text)
        IN  /\ \A i \in DOMAIN all_internships :
                   all_internships[i].similarity =
                       Cosine(profile, TfidfRow(idf, all_internships[i].text))
            /\ \A k \in DOMAIN top_matches :
                   response.matches[k].similarity =
                       Cosine(profile, TfidfRow(idf, top_matches[k].text))

\* C10's case: a duplicate was dropped from the middle of the pool, and a match
\* behind the gap scores differently from the candidate after it.
C10_Witness ==
    /\ response.kind = "ok"
    /\ all_internships[1].idx = 0
    /\ \E i \in DOMAIN all_internships :
           /\ all_internships[i].idx # i - 1
           /\ i + 1 \in DOMAIN all_internships
           /\ all_internships[i].similarity # all_internships[i + 1].similarity
           /\ \E k \in DOMAIN top_matches : top_matches[k].idx = all_internships[i].idx

====
